---- MODULE Spec2Model ----
(***************************************************************************)
(* Model of powestrip.py: a command-line utility that logs in to a network *)
(* controller, resolves a smart power strip by hardware address and sets   *)
(* the relay state of one outlet (update-or-insert on the outlet list).    *)
(*                                                                         *)
(* Python values are modelled as follows.                                  *)
(*   dict          a function whose DOMAIN is the set of keys present      *)
(*   list          a sequence                                              *)
(*   str that is inspected character by character (MAC, action)            *)
(*                 a sequence of one-character strings                     *)
(*   None / value  the sequences <<>> and <<value>>                        *)
(*   f"Outlet {i}" the pair <<"Outlet", i>>                                *)
(***************************************************************************)
EXTENDS Integers, Sequences, FiniteSets, TLC

\* Outlet indices the callers use and the controller reports: 1..MaxIndex.
MaxIndex == 2
\* Longest outlet list the controller holds before the first call.
MaxOutlets == 2
\* Longest device list the resolver is exercised with.
MaxDevices == 2

VARIABLES
  devices,     \* Controller API: the site's device list
  DEVICE_MAC,  \* env_vars: hardware address of the strip
  pc,          \* position of main(); "idle" when main() is not running
  args,        \* main(): parsed command line
  session,     \* main(): result of authenticate_controller()
  device,      \* main(): result of the first get_device_info()
  reqs,        \* requests main() has sent in this invocation, in order
  failed,      \* the step of main() that failed in this invocation, if any
  last         \* the last call of a module function and what it did

vars == <<devices, DEVICE_MAC, pc, args, session, device, reqs, failed, last>>

None == <<>>
Some(x) == <<x>>

\* env_vars.DEVICE_ID
DEVICE_ID == "usp1"

\* dict.get(key, default)
Get(d, k, default) == IF k \in DOMAIN d THEN d[k] ELSE default

LowerChar(c) ==
  CASE c = "A" -> "a"
    [] c = "B" -> "b"
    [] c = "C" -> "c"
    [] c = "O" -> "o"
    [] c = "N" -> "n"
    [] c = "F" -> "f"
    [] OTHER -> c

\* str.lower()
Lower(s) == [i \in DOMAIN s |-> LowerChar(s[i])]

-----------------------------------------------------------------------------
(* HTTP responses.  exc: the request raised; json: the parsed body, None   *)
(* when the body is not valid JSON.                                        *)

RequestFailed == [exc |-> TRUE, status |-> 0, json |-> None]

Reply(status, json) == [exc |-> FALSE, status |-> status, json |-> json]

\* What GET .../stat/device can answer while the controller holds devs.
GetResponses(devs) ==
  { RequestFailed,
    Reply(500, Some([meta |-> [rc |-> "error"]])),
    Reply(200, None),
    Reply(200, Some([meta |-> [rc |-> "ok"]])),
    Reply(200, Some([meta |-> [rc |-> "ok"], data |-> devs])) }

\* What PUT .../rest/device/{id} can answer.
PutResponses ==
  { RequestFailed,
    Reply(200, None),
    Reply(200, Some([meta |-> [rc |-> "ok"]])),
    Reply(200, Some([meta |-> [rc |-> "error"]])),
    Reply(200, Some([meta |-> [msg |-> "x"]])),
    Reply(200, Some([data |-> <<>>])),
    Reply(500, Some([meta |-> [rc |-> "ok"]])) }

\* What POST /api/auth/login can answer: header and cookie token, "" if absent.
LoginResponses ==
  { [exc |-> TRUE, status |-> 0, header |-> "", cookie |-> ""] } \cup
  [exc : {FALSE}, status : {200, 401}, header : {"", "h"}, cookie : {"", "c"}]

-----------------------------------------------------------------------------
(* The functions of powestrip.py.                                          *)

authenticate_controller(response) ==
  IF response.exc THEN None
  ELSE IF response.status = 200
       THEN LET csrf_token == IF response.header # "" THEN response.header
                              ELSE response.cookie
            IN Some([csrf |-> csrf_token])
       ELSE None

RECURSIVE ScanDevicesExact(_, _, _)
\* the scan without .lower(): addresses compared as written
ScanDevicesExact(devs, i, mac) ==
  IF i > Len(devs) THEN None
  ELSE IF Get(devs[i], "mac", <<>>) = mac THEN Some(devs[i])
  ELSE ScanDevicesExact(devs, i + 1, mac)

RECURSIVE ScanDevices(_, _, _)
\* for device in devices: if device.get("mac", "").lower() == mac.lower()
ScanDevices(devs, i, mac) ==
  IF i > Len(devs) THEN None
  ELSE IF Lower(Get(devs[i], "mac", <<>>)) = Lower(mac) THEN Some(devs[i])
  ELSE ScanDevices(devs, i + 1, mac)

get_device_info(response, mac) ==
  IF response.exc THEN None
  ELSE IF response.status # 200 THEN None
  ELSE IF response.json = None THEN None
  ELSE ScanDevices(Get(response.json[1], "data", <<>>), 1, mac)

\* device.get("outlet_overrides") or device.get("outlet_table", [])
ActiveOutletsNonEmpty(dev) ==
  IF Get(dev, "outlet_overrides", <<>>) # <<>> THEN dev["outlet_overrides"]
  ELSE Get(dev, "outlet_table", <<>>)

\* device.get("outlet_overrides", device.get("outlet_table", []))
ActiveOutlets(dev) == Get(dev, "outlet_overrides", Get(dev, "outlet_table", <<>>))

\* outlet.get("index") == str(outlet_index): an int never equals a str
HasIndexText(outlet, outlet_index) ==
  "index" \in DOMAIN outlet /\ <<outlet["index"]>> = <<"text", outlet_index>>

\* outlet.get("index") == outlet_index
HasIndex(outlet, outlet_index) ==
  "index" \in DOMAIN outlet /\ outlet["index"] = outlet_index

RECURSIVE ScanOutletState(_, _, _)
ScanOutletState(outlets, i, outlet_index) ==
  IF i > Len(outlets) THEN None
  ELSE IF HasIndex(outlets[i], outlet_index)
       THEN Some(Get(outlets[i], "relay_state", FALSE))
  ELSE ScanOutletState(outlets, i + 1, outlet_index)

get_outlet_state(dev, outlet_index) ==
  ScanOutletState(ActiveOutlets(dev), 1, outlet_index)

\* cycle aliased to on
DesiredStateCycleOn(action) ==
  Lower(action) \in {<<"o", "n">>, <<"c", "y", "c", "l", "e">>}

\* state = True if action.lower() == "on" else False
DesiredState(action) == Lower(action) = <<"o", "n">>

\* the matching entry replaced by a default entry
SetRelayFresh(outlet, state) ==
  [index |-> outlet["index"], name |-> <<"Outlet", outlet["index"]>>,
   cycle_enabled |-> FALSE, relay_state |-> state]

\* outlet["relay_state"] = state
SetRelay(outlet, state) ==
  [k \in DOMAIN outlet \cup {"relay_state"} |->
     IF k = "relay_state" THEN state ELSE outlet[k]]

\* the appended entry always off
NewOutletOff(outlet_index, state) ==
  [index |-> outlet_index, name |-> <<"Outlet", outlet_index>>,
   cycle_enabled |-> FALSE, relay_state |-> FALSE]

NewOutlet(outlet_index, state) ==
  [index |-> outlet_index, name |-> <<"Outlet", outlet_index>>,
   cycle_enabled |-> FALSE, relay_state |-> state]

\* no scan: the entry is always appended
AlwaysAppend(outlets, i, outlet_index, state) ==
  Append(outlets, [index |-> outlet_index, name |-> <<"Outlet", outlet_index>>,
                   cycle_enabled |-> FALSE, relay_state |-> state])

RECURSIVE UpdateOrInsert(_, _, _, _)
\* the for ... break ... else of control_outlet, scanning from position i
UpdateOrInsert(outlets, i, outlet_index, state) ==
  IF i > Len(outlets) THEN Append(outlets, NewOutlet(outlet_index, state))
  ELSE IF HasIndex(outlets[i], outlet_index)
       THEN [outlets EXCEPT ![i] = SetRelay(outlets[i], state)]
  ELSE UpdateOrInsert(outlets, i + 1, outlet_index, state)

\* response.status_code == 200 alone
PutAcceptedStatusOnly(response) == [exc |-> FALSE, ok |-> response.status = 200]

\* response.status_code == 200 and response.json().get("meta", {}).get("rc") == "ok"
\* raises when the body is not JSON; evaluated only for a request that returned
PutAccepted(response) ==
  IF response.status # 200 THEN [exc |-> FALSE, ok |-> FALSE]
  ELSE IF response.json = None THEN [exc |-> TRUE, ok |-> FALSE]
  ELSE LET meta == Get(response.json[1], "meta", [none |-> 0])
       IN [exc |-> FALSE, ok |-> "rc" \in DOMAIN meta /\ meta["rc"] = "ok"]

\* except Exception: return False
OnException(body) == IF body.exc THEN [body EXCEPT !.exc = FALSE, !.ret = FALSE] ELSE body

\* Body of control_outlet's try block.  sent: the PUT was issued.
ControlBody(getResponse, putResponse, outlet_index, action) ==
  LET state == DesiredState(action)
      dev == get_device_info(getResponse, DEVICE_MAC)
  IN IF dev = None
     THEN [exc |-> FALSE, ret |-> FALSE, fetched |-> None, sent |-> FALSE, payload |-> <<>>]
     ELSE LET outlet_overrides ==
                UpdateOrInsert(ActiveOutlets(dev[1]), 1, outlet_index, state)
              accepted == PutAccepted(putResponse)
          IN [exc |-> putResponse.exc \/ accepted.exc,
              ret |-> ~putResponse.exc /\ accepted.ok,
              fetched |-> dev, sent |-> TRUE, payload |-> outlet_overrides]

control_outlet(getResponse, putResponse, outlet_index, action) ==
  OnException(ControlBody(getResponse, putResponse, outlet_index, action))

\* without the "is None" test: bool(current_state) == desired_state
verify_outlet_state_truthy(getResponse, mac, outlet_index, desired_state) ==
  LET dev == get_device_info(getResponse, mac)
  IN IF dev = None THEN FALSE
     ELSE LET current_state == get_outlet_state(dev[1], outlet_index)
          IN (current_state = Some(TRUE)) = desired_state

verify_outlet_state(getResponse, mac, outlet_index, desired_state) ==
  LET dev == get_device_info(getResponse, mac)
  IN IF dev = None THEN FALSE
     ELSE LET current_state == get_outlet_state(dev[1], outlet_index)
          IN IF current_state = None THEN FALSE
             ELSE current_state[1] = desired_state

-----------------------------------------------------------------------------
(* main(): one step per statement that can end the invocation.             *)

\* the index check skipped
IndexListedAny(outlets, outlet_index) == TRUE

\* any(outlet.get("index") == args.index for outlet in outlets)
IndexListed(outlets, outlet_index) ==
  \E k \in DOMAIN outlets : HasIndex(outlets[k], outlet_index)

-----------------------------------------------------------------------------
(* Controller API.                                                         *)

\* PUT .../rest/device/{device_id} with {"outlet_overrides": payload}, stored
StoreOverrides(devs, device_id, payload) ==
  [k \in DOMAIN devs |->
     IF devs[k]["_id"] = device_id
     THEN [f \in DOMAIN devs[k] \cup {"outlet_overrides"} |->
             IF f = "outlet_overrides" THEN payload ELSE devs[k][f]]
     ELSE devs[k]]

\* The controller stores the submitted list exactly when it answers 200 with
\* {"meta": {"rc": "ok"}}.
Stores(putResponse) ==
  /\ ~putResponse.exc
  /\ putResponse.status = 200
  /\ putResponse.json = Some([meta |-> [rc |-> "ok"]])

-----------------------------------------------------------------------------
(* Inputs.                                                                 *)

On == <<"o", "n">>
Off == <<"o", "f", "f">>
Cycle == <<"c", "y", "c", "l", "e">>
Actions == {<<"O", "n">>, Off, Cycle}

Indices == 1..MaxIndex

\* An outlet as the controller reports it; relay "unset": no relay_state key.
ReportedOutlet(i, relay) ==
  IF relay = "unset"
  THEN [index |-> i, name |-> <<"Lamp", i>>, cycle_enabled |-> TRUE]
  ELSE [index |-> i, name |-> <<"Lamp", i>>, cycle_enabled |-> TRUE,
        relay_state |-> (relay = "on")]

ReportedOutlets == {ReportedOutlet(i, r) : i \in Indices, r \in {"on", "unset"}}

\* at most one entry per index
UniqueIndex(outlets) ==
  \A a, b \in DOMAIN outlets :
    (a # b /\ "index" \in DOMAIN outlets[a] /\ "index" \in DOMAIN outlets[b])
      => outlets[a]["index"] # outlets[b]["index"]

OutletLists(n) ==
  UNION {{s \in [1..m -> ReportedOutlets] : UniqueIndex(s)} : m \in 0..n}

\* A device record; ov and tb are None when the key is absent.
MkDevice(id, mac, ov, tb) ==
  IF ov = None /\ tb = None THEN [_id |-> id, mac |-> mac]
  ELSE IF ov = None THEN [_id |-> id, mac |-> mac, outlet_table |-> tb[1]]
  ELSE IF tb = None THEN [_id |-> id, mac |-> mac, outlet_overrides |-> ov[1]]
  ELSE [_id |-> id, mac |-> mac, outlet_overrides |-> ov[1], outlet_table |-> tb[1]]

StripMac == <<"a", "b">>

NoArgs == [index |-> 0, action |-> <<>>]

NoCall ==
  [op |-> "none", index |-> 0, action |-> <<>>, desired |-> FALSE,
   get |-> RequestFailed, put |-> RequestFailed, stored |-> FALSE,
   before |-> <<>>, fetched |-> None, sent |-> FALSE, payload |-> <<>>,
   ret |-> FALSE, raised |-> FALSE, follows |-> FALSE]

MainIdle ==
  /\ pc = "idle" /\ args = NoArgs /\ session = None /\ device = None
  /\ reqs = <<>> /\ failed = "none"

Init ==
  /\ \E ov \in {None} \cup {Some(l) : l \in OutletLists(MaxOutlets)},
        tb \in {None, Some(<<ReportedOutlet(1, "on")>>)} :
       devices = <<[_id |-> "ap1"], MkDevice(DEVICE_ID, StripMac, ov, tb)>>
  /\ DEVICE_MAC = <<"A", "B">>
  /\ MainIdle
  /\ last = NoCall

\* What the caller keeps of a call once it has looked at the result: of a
\* control_outlet that succeeded, the outlet and the state it asked for.
Summary(call) ==
  IF call.op = "control_outlet" /\ call.ret
  THEN [NoCall EXCEPT !.op = call.op, !.index = call.index,
                      !.desired = call.desired, !.stored = call.stored,
                      !.ret = call.ret]
  ELSE NoCall

-----------------------------------------------------------------------------
(* Calls of the module's functions by a caller that holds a session.       *)

CallGetDeviceInfo ==
  /\ pc = "idle"
  /\ \E g \in GetResponses(devices) :
       last' = [NoCall EXCEPT !.op = "get_device_info", !.get = g,
                              !.before = devices,
                              !.fetched = get_device_info(g, DEVICE_MAC)]
  /\ pc' = "returned"
  /\ UNCHANGED <<devices, DEVICE_MAC, args, session, device, reqs, failed>>

\* One call control_outlet(session, DEVICE_ID, site, i, a) and its effect on
\* the controller.
Control(i, a, g, p) ==
  LET out == control_outlet(g, p, i, a)
      st == Stores(p)
  IN /\ devices' = IF out.sent /\ st
                   THEN StoreOverrides(devices, DEVICE_ID, out.payload)
                   ELSE devices
     /\ last' = [op |-> "control_outlet", index |-> i, action |-> a,
                 desired |-> DesiredState(a), get |-> g, put |-> p,
                 stored |-> out.sent /\ st, before |-> devices,
                 fetched |-> out.fetched, sent |-> out.sent,
                 payload |-> out.payload, ret |-> out.ret, raised |-> out.exc,
                 follows |-> /\ last.op = "control_outlet" /\ last.stored
                             /\ last.index = i
                             /\ last.desired = DesiredState(a)]

CallControlOutlet ==
  /\ pc = "idle"
  /\ \E i \in Indices, a \in Actions, g \in GetResponses(devices),
        p \in PutResponses :
       Control(i, a, g, p)
  /\ pc' = "returned"
  /\ UNCHANGED <<DEVICE_MAC, args, session, device, reqs, failed>>

CallVerifyOutletState ==
  /\ pc = "idle"
  /\ \E i \in Indices, d \in BOOLEAN, g \in GetResponses(devices) :
       last' = [NoCall EXCEPT !.op = "verify_outlet_state", !.index = i,
                  !.desired = d, !.get = g, !.before = devices,
                  !.fetched = get_device_info(g, DEVICE_MAC),
                  !.ret = verify_outlet_state(g, DEVICE_MAC, i, d),
                  !.follows = /\ last.op = "control_outlet" /\ last.ret
                              /\ last.index = i
                              /\ last.desired = d]
  /\ pc' = "returned"
  /\ UNCHANGED <<devices, DEVICE_MAC, args, session, device, reqs, failed>>

\* The caller goes on to its next call.
CallReturn ==
  /\ pc = "returned"
  /\ pc' = "idle"
  /\ last' = Summary(last)
  /\ UNCHANGED <<devices, DEVICE_MAC, args, session, device, reqs, failed>>

-----------------------------------------------------------------------------
(* One run of the script.                                                  *)

Sent(req, response) == [req |-> req, status |-> response.status]

MainStart ==
  /\ pc = "idle"
  /\ \E i \in Indices, a \in {On, Off, Cycle} :
       args' = [index |-> i, action |-> a]
  /\ pc' = "authenticate"
  /\ session' = None /\ device' = None /\ reqs' = <<>> /\ failed' = "none"
  /\ last' = NoCall
  /\ UNCHANGED <<devices, DEVICE_MAC>>

MainAuthenticate ==
  /\ pc = "authenticate"
  /\ \E r \in LoginResponses :
       /\ session' = authenticate_controller(r)
       /\ reqs' = Append(reqs, Sent("login", r))
  /\ IF session' = None
     THEN pc' = "done" /\ failed' = "authenticate"
     ELSE pc' = "get_device" /\ failed' = failed
  /\ UNCHANGED <<devices, DEVICE_MAC, args, device, last>>

MainGetDevice ==
  /\ pc = "get_device"
  /\ \E g \in GetResponses(devices) :
       /\ device' = get_device_info(g, DEVICE_MAC)
       /\ reqs' = Append(reqs, Sent("get", g))
  /\ IF device' = None
     THEN pc' = "done" /\ failed' = "get_device"
     ELSE pc' = "verify_index" /\ failed' = failed
  /\ UNCHANGED <<devices, DEVICE_MAC, args, session, last>>

MainVerifyIndex ==
  /\ pc = "verify_index"
  /\ IF IndexListed(ActiveOutlets(device[1]), args.index)
     THEN pc' = "control" /\ failed' = failed
     ELSE pc' = "done" /\ failed' = "verify_index"
  /\ UNCHANGED <<devices, DEVICE_MAC, args, session, device, reqs, last>>

MainControl ==
  /\ pc = "control"
  /\ \E g \in GetResponses(devices), p \in PutResponses :
       /\ Control(args.index, args.action, g, p)
       /\ reqs' = IF last'.sent
                  THEN reqs \o <<Sent("get", g), Sent("put", p)>>
                  ELSE Append(reqs, Sent("get", g))
       /\ failed' = IF last'.ret THEN "none" ELSE "control"
  /\ pc' = "done"
  /\ UNCHANGED <<DEVICE_MAC, args, session, device>>

\* The process exits.
MainReturn ==
  /\ pc = "done"
  /\ pc' = "idle" /\ args' = NoArgs /\ session' = None /\ device' = None
  /\ reqs' = <<>> /\ failed' = "none"
  /\ last' = Summary(last)
  /\ UNCHANGED <<devices, DEVICE_MAC>>

Next ==
  \/ CallGetDeviceInfo
  \/ CallControlOutlet
  \/ CallVerifyOutletState
  \/ CallReturn
  \/ MainStart
  \/ MainAuthenticate
  \/ MainGetDevice
  \/ MainVerifyIndex
  \/ MainControl
  \/ MainReturn

Spec == Init /\ [][Next]_vars

-----------------------------------------------------------------------------
(* The resolver alone, over every device list: addresses in either case,   *)
(* repeated, or missing.                                                   *)

ResolverDevices ==
  {[_id |-> id] : id \in {"d1", "d2"}} \cup
  {[_id |-> id, mac |-> m] :
     id \in {"d1", "d2"},
     m \in {<<"a", "b">>, <<"A", "B">>, <<"a", "B">>, <<"c", "c">>}}

InitResolver ==
  /\ devices \in UNION {[1..n -> ResolverDevices] : n \in 0..MaxDevices}
  /\ DEVICE_MAC \in {<<"a", "b">>, <<"A", "b">>, <<"c", "d">>}
  /\ MainIdle
  /\ last = NoCall

NextResolver ==
  \/ CallGetDeviceInfo
  \/ CallReturn

SpecResolver == InitResolver /\ [][NextResolver]_vars

-----------------------------------------------------------------------------
(* Properties.  They read the record of the call that has just returned.   *)

Returned(op) == pc \in {"returned", "done"} /\ last.op = op

\* The outlet list of the device the call fetched.
FetchedOutlets == ActiveOutlets(last.fetched[1])

\* Positions of the fetched list that carry the target index.
Carrying(outlets, outlet_index) ==
  {k \in DOMAIN outlets :
     "index" \in DOMAIN outlets[k] /\ outlets[k]["index"] = outlet_index}

OnSpellings == {<<"o", "n">>, <<"O", "n">>, <<"o", "N">>, <<"O", "N">>}

\* The relay state the caller asked for: true for on, false otherwise.
Wanted == last.action \in OnSpellings

First(S) == CHOOSE k \in S : \A j \in S : k <= j

\* C1: control_outlet called with an index no entry of the fetched list
\* carries submits the fetched list with exactly one entry appended,
\* {index, name "Outlet <index>", cycle_enabled false, relay_state desired};
\* every earlier entry is unchanged.
C1_InsertAppendsOne ==
  (Returned("control_outlet") /\ last.sent
     /\ Carrying(FetchedOutlets, last.index) = {})
  => /\ Len(last.payload) = Len(FetchedOutlets) + 1
     /\ \A k \in DOMAIN FetchedOutlets : last.payload[k] = FetchedOutlets[k]
     /\ last.payload[Len(last.payload)] =
          [index |-> last.index, name |-> <<"Outlet", last.index>>,
           cycle_enabled |-> FALSE, relay_state |-> Wanted]

C1_Witness ==
  /\ Returned("control_outlet") /\ last.sent
  /\ Carrying(FetchedOutlets, last.index) = {}
  /\ Len(FetchedOutlets) >= 1
  /\ Wanted

\* C2: control_outlet called with an index the fetched list carries submits a
\* list of the same length and order; the (first) matching entry has
\* relay_state equal to the desired state and all its other fields unchanged,
\* and every other entry is unchanged.
C2_UpdateInPlace ==
  (Returned("control_outlet") /\ last.sent
     /\ Carrying(FetchedOutlets, last.index) # {})
  => LET m == First(Carrying(FetchedOutlets, last.index))
     IN /\ Len(last.payload) = Len(FetchedOutlets)
        /\ \A k \in DOMAIN FetchedOutlets :
             IF k = m
             THEN /\ DOMAIN last.payload[k] =
                       DOMAIN FetchedOutlets[k] \cup {"relay_state"}
                  /\ last.payload[k]["relay_state"] = Wanted
                  /\ \A f \in DOMAIN FetchedOutlets[k] \ {"relay_state"} :
                       last.payload[k][f] = FetchedOutlets[k][f]
             ELSE last.payload[k] = FetchedOutlets[k]

C2_Witness ==
  /\ Returned("control_outlet") /\ last.sent
  /\ Len(FetchedOutlets) = 2
  /\ Carrying(FetchedOutlets, last.index) = {2}
  /\ FetchedOutlets[2]["name"] = <<"Lamp", last.index>>
  /\ Get(FetchedOutlets[2], "relay_state", TRUE) # Wanted
  /\ ~Wanted

\* The update request was answered 200 with a body whose meta.rc is "ok".
PutAnsweredOk ==
  /\ last.sent
  /\ ~last.put.exc
  /\ last.put.status = 200
  /\ last.put.json # None
  /\ "meta" \in DOMAIN last.put.json[1]
  /\ "rc" \in DOMAIN last.put.json[1]["meta"]
  /\ last.put.json[1]["meta"]["rc"] = "ok"

\* C3: control_outlet returns True exactly when the update request was
\* answered with status 200 and meta.rc "ok"; in every other case (other
\* status, other rc, no meta or rc, unparsable body, failed request, failed
\* re-fetch) it returns False, and it never raises.
C3_SuccessIffOk ==
  Returned("control_outlet")
  => /\ ~last.raised
     /\ last.ret = PutAnsweredOk

C3_Witness ==
  /\ Returned("control_outlet") /\ last.sent
  /\ last.put.status = 200 /\ last.put.json = None
  /\ ~last.ret

\* C4: a control_outlet call that repeats the preceding stored call (same
\* index, same desired state) submits the list the controller already
\* holds, so the controller's data after the second call equal those after
\* the first.
C4_Idempotent ==
  (Returned("control_outlet") /\ last.follows /\ last.sent)
  => /\ last.payload = last.fetched[1]["outlet_overrides"]
     /\ devices = last.before

C4_Witness ==
  /\ Returned("control_outlet") /\ last.follows /\ last.stored
  /\ \E k \in DOMAIN last.payload :
       /\ last.payload[k]["index"] = last.index
       /\ last.payload[k]["name"] = <<"Outlet", last.index>>

\* C5: verify_outlet_state, called for the same outlet with desired_state
\* true after a control_outlet "on" that returned True, returns True when it
\* retrieves the device; it returns False whenever the device is not
\* retrieved or the outlet index is absent from the fetched list.
C5_VerifyCorrect ==
  Returned("verify_outlet_state")
  => /\ (last.follows /\ last.desired /\ last.fetched # None) => last.ret
     /\ last.fetched = None => ~last.ret
     /\ (last.fetched # None /\ Carrying(FetchedOutlets, last.index) = {})
          => ~last.ret

C5_Witness ==
  /\ Returned("verify_outlet_state")
  /\ last.follows /\ last.desired /\ last.fetched # None
  /\ last.ret

\* The list a call operated on, read off what it did: control_outlet submits
\* that list with at most the relay_state of one entry changed and at most
\* one entry appended; verify_outlet_state answers from that list.
OperatedOn(outlets) ==
  /\ (Returned("control_outlet") /\ last.sent)
       => /\ Len(last.payload) =
               Len(outlets) + (IF Carrying(outlets, last.index) = {} THEN 1 ELSE 0)
          /\ \A k \in DOMAIN outlets :
               \A f \in DOMAIN outlets[k] \ {"relay_state"} :
                 f \in DOMAIN last.payload[k] /\ last.payload[k][f] = outlets[k][f]
  /\ (Returned("verify_outlet_state") /\ last.fetched # None)
       => last.ret =
            \E k \in Carrying(outlets, last.index) :
              Get(outlets[k], "relay_state", FALSE) = last.desired

\* C6 as claimed: the list operated on is the overrides list if it is
\* non-empty and the base table otherwise.
C6_NonEmptySelection ==
  last.fetched # None
  => LET dev == last.fetched[1]
     IN OperatedOn(IF "outlet_overrides" \in DOMAIN dev /\ dev["outlet_overrides"] # <<>>
                   THEN dev["outlet_overrides"]
                   ELSE IF "outlet_table" \in DOMAIN dev THEN dev["outlet_table"]
                   ELSE <<>>)

\* C6 amended: the list operated on is the overrides list whenever the
\* device carries an outlet_overrides key, empty or not; the base table is
\* used only when that key is absent, and the empty list when both are.
C6_KeyPresentSelection ==
  last.fetched # None
  => LET dev == last.fetched[1]
     IN OperatedOn(IF "outlet_overrides" \in DOMAIN dev THEN dev["outlet_overrides"]
                   ELSE IF "outlet_table" \in DOMAIN dev THEN dev["outlet_table"]
                   ELSE <<>>)

C6_Witness ==
  /\ Returned("control_outlet") /\ last.sent
  /\ "outlet_overrides" \in DOMAIN last.fetched[1]
  /\ last.fetched[1]["outlet_overrides"] = <<>>
  /\ "outlet_table" \in DOMAIN last.fetched[1]
  /\ last.fetched[1]["outlet_table"] # <<>>
  /\ Len(last.payload) = 1

CasePairs == {<<"a", "A">>, <<"b", "B">>, <<"c", "C">>}

SameIgnoringCase(s, t) ==
  /\ Len(s) = Len(t)
  /\ \A i \in DOMAIN s :
       s[i] = t[i] \/ <<s[i], t[i]>> \in CasePairs \/ <<t[i], s[i]>> \in CasePairs

\* The device list the API returned, if it returned one.
Listed ==
  IF ~last.get.exc /\ last.get.status = 200 /\ last.get.json # None
     /\ "data" \in DOMAIN last.get.json[1]
  THEN last.get.json[1]["data"]
  ELSE <<>>

Matching ==
  {k \in DOMAIN Listed :
     "mac" \in DOMAIN Listed[k] /\ SameIgnoringCase(Listed[k]["mac"], DEVICE_MAC)}

\* C7: get_device_info returns the first entry, in list order, whose
\* hardware address equals the target ignoring letter case, and None when no
\* entry matches, the status is not 200, the body is not JSON or the request
\* fails.
C7_FirstMatch ==
  Returned("get_device_info")
  => IF Matching = {} THEN last.fetched = None
     ELSE last.fetched = Some(Listed[First(Matching)])

C7_Witness ==
  /\ Returned("get_device_info")
  /\ Cardinality(Matching) = 2
  /\ Listed[1]["_id"] # Listed[2]["_id"]
  /\ Listed[First(Matching)]["mac"] # DEVICE_MAC
  /\ last.fetched # None

AtMostOnePerIndex(outlets) ==
  \A i \in Indices : Cardinality(Carrying(outlets, i)) <= 1

\* C8: starting from a list with at most one entry per index, every list
\* control_outlet submits and every list the controller holds has at most
\* one entry per index.
C8_UniqueIndices ==
  /\ \A k \in DOMAIN devices :
       /\ AtMostOnePerIndex(Get(devices[k], "outlet_overrides", <<>>))
       /\ AtMostOnePerIndex(Get(devices[k], "outlet_table", <<>>))
  /\ (Returned("control_outlet") /\ last.sent) => AtMostOnePerIndex(last.payload)

C8_Witness ==
  /\ Returned("control_outlet") /\ last.stored
  /\ Len(last.payload) = 2
  /\ Len(last.before[2]["outlet_overrides"]) = 2
  /\ last.payload # last.before[2]["outlet_overrides"]

ReqNames == [k \in DOMAIN reqs |-> reqs[k].req]

\* C9: in one run of main the requests are sent in the order login, device
\* list, device list, update; each is sent only if the step before
\* succeeded: the update only after a login answered 200, a device resolved
\* by hardware address and the target index found in that device's list;
\* after a failed step nothing more is sent.
C9_StepGating ==
  /\ ReqNames = SubSeq(<<"login", "get", "get", "put">>, 1, Len(reqs))
  /\ Len(reqs) >= 2 => reqs[1].status = 200
  /\ Len(reqs) >= 3 =>
       /\ reqs[2].status = 200
       /\ device # None
       /\ SameIgnoringCase(device[1]["mac"], DEVICE_MAC)
       /\ Carrying(ActiveOutlets(device[1]), args.index) # {}
  /\ Len(reqs) = 4 => reqs[3].status = 200
  /\ failed # "none" => pc = "done"
  /\ failed = "authenticate" => Len(reqs) = 1
  /\ failed \in {"get_device", "verify_index"} => Len(reqs) = 2
  /\ (failed = "control" /\ last.fetched = None) => Len(reqs) = 3

C9_Witness ==
  /\ pc = "done" /\ failed = "verify_index"
  /\ Len(reqs) = 2 /\ reqs[2].status = 200
  /\ device # None

\* C10: control_outlet treats every action but a case-insensitive "on" as
\* off: with "cycle" it submits the payload and returns the result it would
\* with "off", the target's relay_state false; one run of main sends at
\* most one update.
C10_CycleIsOff ==
  /\ (Returned("control_outlet") /\ last.sent)
       => \A k \in Carrying(last.payload, last.index) :
            last.payload[k]["relay_state"] = Wanted
  /\ (Returned("control_outlet") /\ last.action = Cycle)
       => LET off == control_outlet(last.get, last.put, last.index, Off)
          IN /\ last.payload = off.payload
             /\ last.sent = off.sent
             /\ last.ret = off.ret
  /\ Cardinality({k \in DOMAIN reqs : reqs[k].req = "put"}) <= 1

C10_Witness ==
  /\ Returned("control_outlet") /\ last.action = Cycle
  /\ last.ret
  /\ \E k \in Carrying(FetchedOutlets, last.index) :
       Get(FetchedOutlets[k], "relay_state", FALSE)

====
